---- MODULE Spec2Model ----
(***************************************************************************)
(* The crawl engine of goCrawler (package crawler): Start, Stop, the       *)
(* worker pool, the pending-job counter that closes the job channel, the   *)
(* seen set, the shared rate-limiter ticker and context cancellation.      *)
(*                                                                         *)
(* Every goroutine is a process with a program counter; one action is one  *)
(* access to shared state (a channel operation, a critical section of a    *)
(* mutex, a context check) together with the local code that leads to it.  *)
(***************************************************************************)
EXTENDS Integers, Sequences, FiniteSets, TLC

\* ------------------------------------------------------------------ bounds

\* The pool size config.NumWorkers is drawn from 1..MaxWorkers.
MaxWorkers == 2

\* config.MaxDepth is drawn from 1..MaxDepthBound.
MaxDepthBound == 2

\* Capacity of the jobs channel.  The code allocates 1000 slots; the model
\* scales the capacity down together with the size of the web, so that a page
\* can hold more new links than the channel has slots.
JobsCap == 1

\* Number of goroutines that call Stop in the specifications about Stop.
NumStoppers == 2

\* Longest query string, in parameters, of the URLs given to NormalizeURL.
MaxParams == 2

\* Longest result list given to the storage sinks.
MaxResults == 3

\* ------------------------------------------------------------ strings, URLs

\* A string is a sequence of tokens: the pieces the URL functions tell apart
\* (scheme prefix, host name, ":", port digits, "[", "]", "/", path segment,
\* "?", "&", "=", parameter key, parameter value, "#", fragment).  The empty
\* string is <<>>.  No token needs percent-escaping.

\* strings.IndexByte(s, c): the first position of c in s, 0 if there is none.
IndexByte(s, c) ==
    IF \E i \in 1..Len(s) : s[i] = c
      THEN CHOOSE i \in 1..Len(s) : s[i] = c /\ \A j \in 1..(i - 1) : s[j] # c
      ELSE 0

\* strings.LastIndexByte(s, c): the last position of c in s, 0 if there is none.
LastIndexByte(s, c) ==
    IF \E i \in 1..Len(s) : s[i] = c
      THEN CHOOSE i \in 1..Len(s) : s[i] = c /\ \A j \in (i + 1)..Len(s) : s[j] # c
      ELSE 0

\* strings.HasPrefix(s, p) for a one-token prefix p
HasPrefix(s, p) == s # <<>> /\ s[1] = p

\* strings.HasSuffix(s, p) for a one-token suffix p
HasSuffix(s, p) == s # <<>> /\ s[Len(s)] = p

\* s[:i-1] and s[i+1:] around position i of s
Before(s, i) == SubSeq(s, 1, i - 1)
After(s, i) == SubSeq(s, i + 1, Len(s))

\* strings.Cut(s, sep): the parts before and after the first sep; all of s and
\* the empty string if there is none.
CutBefore(s, sep) == IF IndexByte(s, sep) = 0 THEN s ELSE Before(s, IndexByte(s, sep))
CutAfter(s, sep) == IF IndexByte(s, sep) = 0 THEN <<>> ELSE After(s, IndexByte(s, sep))

\* The tokens "http://" and "https://" stand for scheme, ":" and "//".
SchemeOf(tok) ==
    CASE tok = "http://" -> "http"
      [] tok = "https://" -> "https"
      [] OTHER -> ""

SchemePrefix(scheme) == IF scheme = "http" THEN "http://" ELSE "https://"

\* Tokens made of decimal digits only.
DigitTokens == {"1", "80", "443", "8080"}

\* Path segments that contain a "." (a file name with an extension).
DottedTokens == {"f.html", "doc.pdf"}

\* net/url validOptionalPort: "" or ":" followed by digits only.
validOptionalPort(port) ==
    \/ port = <<>>
    \/ port = <<":">>
    \/ Len(port) = 2 /\ port[1] = ":" /\ port[2] \in DigitTokens

\* net/url parseHost: an IP literal needs its closing bracket, and what
\* follows the bracket or the last colon must be an optional port.
parseHostOk(host) ==
    IF HasPrefix(host, "[")
      THEN /\ LastIndexByte(host, "]") # 0
           /\ validOptionalPort(After(host, LastIndexByte(host, "]")))
      ELSE \/ LastIndexByte(host, ":") = 0
           \/ validOptionalPort(SubSeq(host, LastIndexByte(host, ":"), Len(host)))

\* url.Parse: fragment cut at the first "#", query at the first "?", the
\* authority after "//" up to the first "/", the rest is the path.
Parse(rawURL) ==
    LET noFrag == CutBefore(rawURL, "#")
        hasScheme == noFrag # <<>> /\ SchemeOf(noFrag[1]) # ""
        rest == IF hasScheme THEN Tail(noFrag) ELSE noFrag
        beforeQuery == CutBefore(rest, "?")
        authority == IF hasScheme THEN CutBefore(beforeQuery, "/") ELSE <<>>
    IN  [ok |-> parseHostOk(authority),
         Scheme |-> IF hasScheme THEN SchemeOf(noFrag[1]) ELSE "",
         Host |-> authority,
         Path |-> SubSeq(beforeQuery, Len(authority) + 1, Len(beforeQuery)),
         RawQuery |-> CutAfter(rest, "?"),
         ForceQuery |-> HasSuffix(rest, "?") /\ IndexByte(rest, "?") = Len(rest),
         Fragment |-> CutAfter(rawURL, "#")]

\* (*URL).Port: the digits after the last colon of Host, if they are a port.
Port(u) ==
    LET colon == LastIndexByte(u.Host, ":") IN
      IF colon # 0 /\ validOptionalPort(SubSeq(u.Host, colon, Len(u.Host)))
        THEN After(u.Host, colon)
        ELSE <<>>

\* (*URL).String
String(u) ==
    (IF u.Scheme # "" THEN <<SchemePrefix(u.Scheme)>> ELSE <<>>)
      \o u.Host
      \o u.Path
      \o (IF u.ForceQuery \/ u.RawQuery # <<>> THEN <<"?">> \o u.RawQuery ELSE <<>>)
      \o (IF u.Fragment # <<>> THEN <<"#">> \o u.Fragment ELSE <<>>)

\* url.ParseQuery, errors ignored as (*URL).Query does: the pairs between the
\* "&", each cut at its first "="; empty pairs are skipped.
RECURSIVE ParseQuery(_)
ParseQuery(query) ==
    IF query = <<>> THEN <<>>
    ELSE LET pair == CutBefore(query, "&")
             rest == ParseQuery(CutAfter(query, "&"))
         IN  IF pair = <<>> THEN rest
             ELSE <<[key |-> CutBefore(pair, "="), value |-> CutAfter(pair, "=")]>> \o rest

\* The parameter keys in the byte order sort.Strings gives them.
KeyOrder == << <<"b">>, <<"id">>, <<"utm_campaign">>, <<"utm_content">>, <<"utm_id">>,
               <<"utm_medium">>, <<"utm_source">>, <<"utm_term">> >>

\* The pairs of `values` whose key is k, in their order.
RECURSIVE ValuesOf(_, _)
ValuesOf(values, k) ==
    IF values = <<>> THEN <<>>
    ELSE (IF Head(values).key = k THEN <<Head(values)>> ELSE <<>>)
           \o ValuesOf(Tail(values), k)

\* Values.Del(key)
RECURSIVE Del(_, _)
Del(values, k) ==
    IF values = <<>> THEN <<>>
    ELSE (IF Head(values).key = k THEN <<>> ELSE <<Head(values)>>) \o Del(Tail(values), k)

\* "key=value" for each pair, joined by "&".
RECURSIVE JoinPairs(_)
JoinPairs(pairs) ==
    IF pairs = <<>> THEN <<>>
    ELSE Head(pairs).key \o <<"=">> \o Head(pairs).value
           \o (IF Tail(pairs) = <<>> THEN <<>> ELSE <<"&">> \o JoinPairs(Tail(pairs)))

\* The pairs of `values` grouped by key, keys in the order of `keys`.
RECURSIVE SortedPairs(_, _)
SortedPairs(values, keys) ==
    IF keys = <<>> THEN <<>>
    ELSE ValuesOf(values, Head(keys)) \o SortedPairs(values, Tail(keys))

\* Values.Encode: sorted by key
Encode(values) == JoinPairs(SortedPairs(values, KeyOrder))

\* Mutant of removeParams: utm_source is missing from the list.
removeParamsShort == << <<"utm_medium">>, <<"utm_campaign">>, <<"utm_term">>,
                        <<"utm_content">> >>

removeParams == << <<"utm_source">>, <<"utm_medium">>, <<"utm_campaign">>, <<"utm_term">>,
                   <<"utm_content">> >>

\* for _, param := range removeParams { query.Del(param) }
RECURSIVE DelAll(_, _)
DelAll(values, params) ==
    IF params = <<>> THEN values
    ELSE DelAll(Del(values, Head(params)), Tail(params))

\* host[:colonIndex] with colonIndex the FIRST colon of the host
StripDefaultPort(host) ==
    IF IndexByte(host, ":") # 0 THEN Before(host, IndexByte(host, ":")) ELSE host

\* The path with a trailing slash if it has no "." and does not end in one.
SlashedPath(path) ==
    IF (\A i \in 1..Len(path) : path[i] \notin DottedTokens) /\ ~HasSuffix(path, "/")
      THEN path \o <<"/">>
      ELSE path

NormalizeURL(rawURL) ==
    LET withScheme == IF ~HasPrefix(rawURL, "http://") /\ ~HasPrefix(rawURL, "https://")
                        THEN <<"https://">> \o rawURL
                        ELSE rawURL
        parsedURL == Parse(withScheme)
        defaultPort == \/ parsedURL.Scheme = "http" /\ Port(parsedURL) = <<"80">>
                       \/ parsedURL.Scheme = "https" /\ Port(parsedURL) = <<"443">>
    IN  IF ~parsedURL.ok
          THEN [err |-> TRUE, url |-> <<>>]
          ELSE [err |-> FALSE,
                url |-> String([parsedURL EXCEPT
                           !.Path = SlashedPath(parsedURL.Path),
                           !.RawQuery = Encode(DelAll(ParseQuery(parsedURL.RawQuery),
                                                      removeParams)),
                           !.Fragment = <<>>,
                           !.Host = IF defaultPort THEN StripDefaultPort(parsedURL.Host)
                                                   ELSE parsedURL.Host])]

\* The extensions IsURLValid rejects, as path segments.
excludedExtensions == {"doc.pdf"}

IsURLValid(rawURL) ==
    /\ rawURL # <<>>
    /\ HasPrefix(rawURL, "http://") \/ HasPrefix(rawURL, "https://")
    /\ Parse(rawURL).ok
    /\ ~(\E ext \in excludedExtensions : HasSuffix(Parse(rawURL).Path, ext))

\* ResolveURL, for a reference that is absolute or an absolute path: the
\* base's scheme and host with the reference's path, query and fragment.
ResolveURL(baseURL, relativeURL) ==
    IF ~Parse(baseURL).ok THEN [err |-> TRUE, url |-> <<>>]
    ELSE IF HasPrefix(relativeURL, "http://") \/ HasPrefix(relativeURL, "https://")
      THEN [err |-> FALSE, url |-> relativeURL]
    ELSE [err |-> FALSE,
          url |-> String([Parse(relativeURL) EXCEPT
                            !.Scheme = Parse(baseURL).Scheme,
                            !.Host = Parse(baseURL).Host])]

\* ----------------------------------------------------------------- the web

\* A canonical URL with host h and path p, as NormalizeURL prints it.
MkURL(h, p) == <<"https://">> \o h \o p

BaseHost == <<"example.com">>

SeedURL == MkURL(BaseHost, <<"/">>)
PageA == MkURL(BaseHost, <<"/", "a", "/">>)
PageB == MkURL(BaseHost, <<"/", "b", "/">>)
SubURL == MkURL(<<"www.example.com">>, <<"/">>)
OtherURL == MkURL(<<"other.com">>, <<"/", "b", "/">>)

NoURL == <<>>

URLs == {SeedURL, PageA, PageB, SubURL, OtherURL}

\* The webs a run can crawl: "graph" is a cyclic link graph over three pages
\* of the seed's host, "scenario" is the seed page linking to /a, to another
\* host and to a fragment of itself.
Webs == {"graph", "scenario"}

\* The href attributes of the a[href] elements of a page, in document order.
PageHrefs(w, u) ==
    CASE w = "graph" /\ u = SeedURL ->
            << <<"/", "a">>,
               <<"https://", "other.com", "/", "b", "/">>,
               <<"https://", "example.com", "/", "b", "?", "utm_source", "=", "x",
                 "#", "frag">> >>
      [] w = "graph" /\ u = PageA ->
            << <<"#", "frag">>,
               <<"/", "b", "/">>,
               <<"https://", "example.com">>,
               <<"/", "doc.pdf">>,
               <<"https://", "www.example.com", ":", "443", "/">> >>
      [] w = "graph" /\ u = PageB ->
            << <<"/", "a", "/">> >>
      [] w = "scenario" /\ u = SeedURL ->
            << <<"https://", "example.com", "/", "a">>,
               <<"https://", "other.com", "/", "b">>,
               <<"#", "frag">> >>
      [] w = "scenario" /\ u = PageA ->
            << <<"/", "b">> >>
      [] OTHER -> <<>>

\* Mutant of SkippedHref: only the empty href is skipped.
SkippedHrefEmptyOnly(href) == href = <<>>

\* !exists || href == "" || strings.HasPrefix(href, "#")
SkippedHref(href) == href = <<>> \/ HasPrefix(href, "#")

\* The body of the Each callback of crawlURL: what one href adds to
\* result.Links.
LinkOf(url, href) ==
    LET absoluteURL == ResolveURL(url, href)
        normalizedURL == NormalizeURL(absoluteURL.url)
    IN  IF SkippedHref(href) \/ absoluteURL.err \/ normalizedURL.err
             \/ ~IsURLValid(normalizedURL.url)
          THEN <<>>
          ELSE <<normalizedURL.url>>

\* doc.Find("a[href]").Each(...): result.Links of the page at url.
RECURSIVE ExtractLinks(_, _)
ExtractLinks(url, hrefs) ==
    IF hrefs = <<>> THEN <<>>
    ELSE LinkOf(url, Head(hrefs)) \o ExtractLinks(url, Tail(hrefs))

\* url.Parse(u).Host of every URL of the webs, computed once.
HostOf == [u \in URLs |-> Parse(u).Host]

\* linkURL.Host of a parsed link.
Host(u) == IF u \in URLs THEN HostOf[u] ELSE Parse(u).Host

\* result.Links of every page of every web, computed once.
LinksOf == [w \in Webs |-> [u \in URLs |-> ExtractLinks(u, PageHrefs(w, u))]]

Workers == 1..MaxWorkers
Stoppers == 1..NumStoppers

\* The one goroutine of main that calls c.Stop(), on a signal or a timeout.
MainStopper == {s \in Stoppers : s <= 1}

NoJob == [url |-> NoURL, depth |-> 0]

\* The values of config.StartURL: one that NormalizeURL accepts and one that
\* url.Parse rejects (an IP literal without its closing bracket).
GoodStartURL == <<"https://", "example.com">>
BadStartURL == <<"https://", "[", ":", ":", "1">>
StartURLs == {GoodStartURL, BadStartURL}

\* What the first lines of Start compute from each config.StartURL, computed
\* once: NormalizeURL, then url.Parse of its result; err if either fails.
NormalizedStartURL ==
    [s \in StartURLs |->
        [err |-> NormalizeURL(s).err \/ ~Parse(NormalizeURL(s).url).ok,
         url |-> NormalizeURL(s).url]]

\* config.Storage: nil, storage.NewJSONStorage(path) or storage.NewCSVStorage(path)
Storages == {"none", "json", "csv"}

\* ---------------------------------------------------- results and storage

\* The Result a successful crawlURL(url, depth) returns, its fields named by
\* their json tags: the status is 200 and the content type HTML, or crawlURL
\* had returned an error.
MkResult(url, depth, pageLinks) ==
    [url |-> url, title |-> <<"title">>, status_code |-> 200, content_length |-> 0,
     links |-> pageLinks, depth |-> depth, timestamp |-> <<"2006-01-02T15:04:05Z">>]

\* The exported fields of Result in declaration order, with json tag and kind.
ResultFields ==
    << [Name |-> "URL", Tag |-> "url", Kind |-> "string"],
       [Name |-> "Title", Tag |-> "title", Kind |-> "string"],
       [Name |-> "StatusCode", Tag |-> "status_code", Kind |-> "int"],
       [Name |-> "ContentLength", Tag |-> "content_length", Kind |-> "int"],
       [Name |-> "Links", Tag |-> "links", Kind |-> "slice"],
       [Name |-> "Depth", Tag |-> "depth", Kind |-> "int"],
       [Name |-> "Timestamp", Tag |-> "timestamp", Kind |-> "struct"] >>

\* The value Start passes to Storage.Save: an interface{} whose dynamic type
\* is []crawler.Result.
SliceOfResult(items) == [type |-> "[]crawler.Result", items |-> items]

DecimalDigits == <<"0", "1", "2", "3", "4", "5", "6", "7", "8", "9">>

\* strconv.Itoa / strconv.FormatInt(n, 10)
RECURSIVE FormatInt(_)
FormatInt(n) ==
    IF n < 0 THEN <<"-">> \o FormatInt(0 - n)
    ELSE IF n < 10 THEN <<DecimalDigits[n + 1]>>
    ELSE FormatInt(n \div 10) \o <<DecimalDigits[(n % 10) + 1]>>

\* The header CSVStorage.Save writes for an empty slice.
EmptyHeaders == << <<"URL">>, <<"Title">>, <<"StatusCode">>, <<"ContentLength">>,
                   <<"Depth">>, <<"Timestamp">>, <<"LinksCount">> >>

\* The header names taken from the fields of the first item: the json tag,
\* or the field name when there is no tag.
RECURSIVE FieldHeaders(_)
FieldHeaders(fields) ==
    IF fields = <<>> THEN <<>>
    ELSE <<IF Head(fields).Tag = "" THEN <<Head(fields).Name>> ELSE <<Head(fields).Tag>> >>
           \o FieldHeaders(Tail(fields))

\* headers of a non-empty slice: one per field, then "LinksCount".
Headers(fields) == FieldHeaders(fields) \o << <<"LinksCount">> >>

\* The cell a field of an item becomes: the switch on field.Kind().
Cell(item, field) ==
    CASE field.Kind = "string" -> item[field.Tag]
      [] field.Kind = "int" -> FormatInt(item[field.Tag])
      [] field.Kind = "struct" -> item[field.Tag]
      [] field.Kind = "slice" -> FormatInt(Len(item[field.Tag]))

\* One data row: a cell per field, in field order.
RECURSIVE Row(_, _)
Row(item, fields) ==
    IF fields = <<>> THEN <<>>
    ELSE <<Cell(item, Head(fields))>> \o Row(item, Tail(fields))

\* The rows CSVStorage.Save writes when no write fails.
CSVRows(results) ==
    IF Len(results.items) = 0
      THEN <<EmptyHeaders>>
      ELSE <<Headers(ResultFields)>>
             \o [i \in 1..Len(results.items) |-> Row(results.items[i], ResultFields)]

\* getResultCount: the length if the dynamic type is []interface{} or
\* []struct{}, else 0.
getResultCount(results) ==
    IF results.type = "[]interface {}" THEN Len(results.items)
    ELSE IF results.type = "[]struct {}" THEN Len(results.items)
    ELSE 0

\* The document JSONStorage.Save encodes.
JSONDocument(results) ==
    [results |-> results.items, count |-> getResultCount(results),
     timestamp |-> <<"2006-01-02T15:04:05Z">>]

\* The output file after a Save that returned nil.
Save(storage, results) ==
    IF storage = "json"
      THEN [format |-> "json", document |-> JSONDocument(results)]
      ELSE [format |-> "csv", rows |-> CSVRows(results)]

\* The output file before anything is written to it.
NoFile == [format |-> "none"]

VARIABLES
    config,          \* c.config after New: MaxDepth, NumWorkers, StartURL, Storage,
                     \* Timeout (seconds), RateLimit (milliseconds)
    web,             \* the web the fetches are made against
    startPc,         \* position of the goroutine running Start
    startErr,        \* Start returned a non-nil error
    baseDomain,      \* baseURL.Host computed by Start
    waiterPc,        \* the goroutine of Start that does wg.Wait(); close(stopChan)
    wpc,             \* position of each worker goroutine
    cur,             \* currentJob of each worker
    links,           \* the part of result.Links a worker has still to range over
    jobs,            \* buffer of the jobs channel
    closed,          \* the jobs channel has been closed
    pendingJobs,     \* c.pendingJobs
    seen,            \* keys of c.seen
    results,         \* c.results
    cancelled,       \* c.ctx is done
    wg,              \* counter of c.wg
    stopChanClosed,  \* c.stopChan has been closed
    tick,            \* ticks buffered in the ticker channel (capacity 1)
    stopPc,          \* position of each goroutine calling Stop
    panicked,        \* the process died of a runtime panic
    enq,             \* history: how often each URL was sent on the jobs channel
    closeCount,      \* history: how often the counter was decremented to zero
    abandoned,       \* history: parent jobs dropped by a worker leaving at line 443
    ticks,           \* history: ticks the ticker has put in its channel
    fetches,         \* history: crawlURL calls the workers have made
    saved,           \* the copy of c.results Start hands to Storage.Save
    file,            \* what Storage.Save wrote to the output file
    retResults,      \* the []Result Start returned
    retErr,          \* the error Start returned: "nil", "parse", "save"; "none" before
    retTorn,         \* the slice header Start returned was read while being written
    input,           \* argument of the function a function-level check applies
    output,          \* the values the function returned, in call order
    step             \* position of a function-level check

\* The counts of ticks and of fetches.
rateVars == <<ticks, fetches>>

\* What Start's last steps write.
returnVars == <<saved, file, retResults, retErr, retTorn>>

\* What the function-level checks write.
fnVars == <<input, output, step>>

vars == <<config, web, startPc, startErr, baseDomain, waiterPc, wpc, cur, links, jobs,
          closed, pendingJobs, seen, results, cancelled, wg, stopChanClosed, tick,
          stopPc, panicked, enq, closeCount, abandoned, rateVars, returnVars, fnVars>>

\* startURL of Start: the normalized config.StartURL.
startURL == NormalizedStartURL[config.StartURL].url

\* Both NormalizeURL(c.config.StartURL) and url.Parse(startURL) succeed.
StartURLParses == ~NormalizedStartURL[config.StartURL].err

\* result.Links of a successful crawlURL(u, depth).
PageLinks(u) == IF u \in URLs THEN LinksOf[web][u] ELSE ExtractLinks(u, PageHrefs(web, u))

\* ------------------------------------------------------------------- Init

\* The values New puts in place of a NumWorkers, Timeout (seconds), MaxDepth
\* or RateLimit (milliseconds) that is not positive.
DefaultNumWorkers == 5
DefaultTimeout == 10
DefaultMaxDepth == 2
DefaultRateLimit == 100

\* Mutant of New: only a zero is replaced, a negative value is kept.
NewZeroOnly(cfg) ==
    [cfg EXCEPT !.NumWorkers = IF @ = 0 THEN DefaultNumWorkers ELSE @,
                !.Timeout = IF @ = 0 THEN DefaultTimeout ELSE @,
                !.MaxDepth = IF @ = 0 THEN DefaultMaxDepth ELSE @,
                !.RateLimit = IF @ = 0 THEN DefaultRateLimit ELSE @]

\* The config New stores in the crawler: its argument with the defaults set.
New(cfg) ==
    [cfg EXCEPT !.NumWorkers = IF @ <= 0 THEN DefaultNumWorkers ELSE @,
                !.Timeout = IF @ <= 0 THEN DefaultTimeout ELSE @,
                !.MaxDepth = IF @ <= 0 THEN DefaultMaxDepth ELSE @,
                !.RateLimit = IF @ <= 0 THEN DefaultRateLimit ELSE @]

\* The crawler after New, before Start.
InitCrawler ==
    /\ startPc = "normalize"
    /\ startErr = FALSE
    /\ baseDomain = <<>>
    /\ waiterPc = "none"
    /\ wpc = [w \in Workers |-> "none"]
    /\ cur = [w \in Workers |-> NoJob]
    /\ links = [w \in Workers |-> <<>>]
    /\ jobs = <<>>
    /\ closed = FALSE
    /\ pendingJobs = 0
    /\ seen = {}
    /\ results = <<>>
    /\ cancelled = FALSE
    /\ wg = 0
    /\ stopChanClosed = FALSE
    /\ tick = 0
    /\ stopPc = [s \in Stoppers |-> "idle"]
    /\ panicked = FALSE
    /\ enq = [u \in URLs |-> 0]
    /\ closeCount = 0
    /\ abandoned = 0
    /\ ticks = 0
    /\ fetches = 0
    /\ saved = <<>>
    /\ file = NoFile
    /\ retResults = <<>>
    /\ retErr = "none"
    /\ retTorn = FALSE

Init ==
    /\ config \in [MaxDepth : 1..MaxDepthBound, NumWorkers : 1..MaxWorkers,
                   StartURL : StartURLs, Storage : Storages,
                   Timeout : {DefaultTimeout}, RateLimit : {DefaultRateLimit}]
    /\ web \in Webs
    /\ InitCrawler
    /\ input = <<>>
    /\ output = <<>>
    /\ step = "off"

\* ------------------------------------------------- the pending-job counter

\* Mutant of AfterIncrement: the counter is not incremented.
AfterIncrementLost(n) == n

\* c.pendingJobs++
AfterIncrement(n) == n + 1

\* c.pendingJobs--
AfterDecrement(n) == n - 1

\* Mutant of ShouldClose: the channel is closed while one job is still counted.
ShouldCloseEarly(n) == n <= 1

\* The test that guards close(c.jobs): pendingJobs <= 0 and pendingJobs == 0.
ShouldClose(n) == n <= 0 /\ n = 0

incrementPendingJobs ==
    pendingJobs' = AfterIncrement(pendingJobs)

\* One critical section of pendingJobsMutex: the decrement and, at zero, the
\* close.  Closing a closed channel panics.
decrementPendingJobs ==
    /\ pendingJobs' = AfterDecrement(pendingJobs)
    /\ IF ShouldClose(AfterDecrement(pendingJobs))
         THEN /\ closeCount' = closeCount + 1
              /\ closed' = TRUE
              /\ panicked' = closed
         ELSE UNCHANGED <<closed, closeCount, panicked>>

\* New has returned: there is a crawler to call Start and Stop on, and its
\* ticker runs.
HasCrawler == step # "input"

\* The pool and the depth limit of the crawler are within the bounds.
WithinBounds == config.NumWorkers <= MaxWorkers /\ config.MaxDepth <= MaxDepthBound

\* ------------------------------------------------------------------ Start

startVarsRest == <<config, waiterPc, wpc, cur, links, jobs, closed, pendingJobs, seen,
                   results, cancelled, wg, stopChanClosed, tick, stopPc, panicked, enq,
                   closeCount, abandoned>>

\* NormalizeURL and url.Parse of the start URL succeed.
StartNormalizeOk ==
    /\ ~panicked
    /\ UNCHANGED <<web, rateVars, returnVars, fnVars>>
    /\ HasCrawler /\ WithinBounds
    /\ startPc = "normalize"
    /\ StartURLParses
    /\ baseDomain' = Host(startURL)
    /\ startPc' = "spawn"
    /\ UNCHANGED <<startErr>>
    /\ UNCHANGED startVarsRest

\* Mutant of StartNormalizeFail: the pool is launched before the start URL
\* is found to be bad.
StartNormalizeFailAfterSpawn ==
    /\ ~panicked
    /\ UNCHANGED <<web, rateVars, saved, file, retTorn, fnVars>>
    /\ HasCrawler /\ WithinBounds
    /\ startPc = "normalize"
    /\ ~StartURLParses
    /\ wpc' = [w \in Workers |-> IF w <= config.NumWorkers THEN "select" ELSE "none"]
    /\ wg' = wg + config.NumWorkers
    /\ startErr' = TRUE
    /\ retResults' = <<>>
    /\ retErr' = "parse"
    /\ startPc' = "returned"
    /\ UNCHANGED <<config, baseDomain, waiterPc, cur, links, jobs, closed, pendingJobs,
                   seen, results, cancelled, stopChanClosed, tick, stopPc, panicked,
                   enq, closeCount, abandoned>>

\* NormalizeURL or url.Parse fails: return nil, err.
StartNormalizeFail ==
    /\ ~panicked
    /\ UNCHANGED <<web, rateVars, saved, file, retTorn, fnVars>>
    /\ HasCrawler /\ WithinBounds
    /\ startPc = "normalize"
    /\ ~StartURLParses
    /\ startErr' = TRUE
    /\ retResults' = <<>>
    /\ retErr' = "parse"
    /\ startPc' = "returned"
    /\ UNCHANGED <<baseDomain>>
    /\ UNCHANGED startVarsRest

\* The loop that does wg.Add(1); go c.worker(i+1, baseDomain).
StartSpawn ==
    /\ ~panicked
    /\ UNCHANGED <<web, rateVars, returnVars, fnVars>>
    /\ startPc = "spawn"
    /\ wpc' = [w \in Workers |-> IF w <= config.NumWorkers THEN "select" ELSE "none"]
    /\ wg' = wg + config.NumWorkers
    /\ startPc' = "inc"
    /\ UNCHANGED <<config, startErr, baseDomain, waiterPc, cur, links, jobs, closed,
                   pendingJobs, seen, results, cancelled, stopChanClosed, tick, stopPc,
                   panicked, enq, closeCount, abandoned>>

StartIncrement ==
    /\ ~panicked
    /\ UNCHANGED <<web, rateVars, returnVars, fnVars>>
    /\ startPc = "inc"
    /\ incrementPendingJobs
    /\ startPc' = "send"
    /\ UNCHANGED <<config, startErr, baseDomain, waiterPc, wpc, cur, links, jobs, closed,
                   seen, results, cancelled, wg, stopChanClosed, tick, stopPc, panicked,
                   enq, closeCount, abandoned>>

\* c.jobs <- job{url: startURL, depth: 0}: blocks while the buffer is full,
\* panics on a closed channel.
StartSend ==
    /\ ~panicked
    /\ UNCHANGED <<web, rateVars, returnVars, fnVars>>
    /\ startPc = "send"
    /\ closed \/ Len(jobs) < JobsCap
    /\ IF closed
         THEN /\ panicked' = TRUE
              /\ UNCHANGED <<jobs, enq>>
         ELSE /\ jobs' = Append(jobs, [url |-> startURL, depth |-> 0])
              /\ enq' = [enq EXCEPT ![startURL] = @ + 1]
              /\ UNCHANGED panicked
    /\ startPc' = "mark"
    /\ UNCHANGED <<config, startErr, baseDomain, waiterPc, wpc, cur, links, closed,
                   pendingJobs, seen, results, cancelled, wg, stopChanClosed, tick,
                   stopPc, closeCount, abandoned>>

\* c.markURLSeen(startURL)
StartMark ==
    /\ ~panicked
    /\ UNCHANGED <<web, rateVars, returnVars, fnVars>>
    /\ startPc = "mark"
    /\ seen' = seen \cup {startURL}
    /\ startPc' = "waiter"
    /\ UNCHANGED <<config, startErr, baseDomain, waiterPc, wpc, cur, links, jobs, closed,
                   pendingJobs, results, cancelled, wg, stopChanClosed, tick, stopPc,
                   panicked, enq, closeCount, abandoned>>

\* go func() { c.wg.Wait(); close(c.stopChan) }()
StartWaiter ==
    /\ ~panicked
    /\ UNCHANGED <<web, rateVars, returnVars, fnVars>>
    /\ startPc = "waiter"
    /\ waiterPc' = "waiting"
    /\ startPc' = "select"
    /\ UNCHANGED <<config, startErr, baseDomain, wpc, cur, links, jobs, closed,
                   pendingJobs, seen, results, cancelled, wg, stopChanClosed, tick,
                   stopPc, panicked, enq, closeCount, abandoned>>

\* if c.config.Storage != nil: where Start goes after its select.
AfterSelectPc == IF config.Storage # "none" THEN "save" ELSE "return"

\* case <-c.stopChan of Start's select
StartSelectDone ==
    /\ ~panicked
    /\ UNCHANGED <<web, rateVars, returnVars, fnVars>>
    /\ startPc = "select"
    /\ stopChanClosed
    /\ startPc' = AfterSelectPc
    /\ UNCHANGED <<startErr, baseDomain>>
    /\ UNCHANGED startVarsRest

\* case <-c.ctx.Done() of Start's select
StartSelectCancelled ==
    /\ ~panicked
    /\ UNCHANGED <<web, rateVars, returnVars, fnVars>>
    /\ startPc = "select"
    /\ cancelled
    /\ startPc' = AfterSelectPc
    /\ UNCHANGED <<startErr, baseDomain>>
    /\ UNCHANGED startVarsRest

\* if c.config.Storage != nil: c.mu.Lock(); results := make([]Result,
\* len(c.results)); copy(results, c.results); c.mu.Unlock(); then
\* c.config.Storage.Save(results) returns nil and the file is written.  Save
\* works on the copy and the file only, which no other goroutine touches, so
\* it is one step with the critical section that makes the copy.
StartSaveOk ==
    /\ ~panicked
    /\ UNCHANGED <<web, rateVars, retResults, retErr, retTorn, fnVars>>
    /\ startPc = "save"
    /\ saved' = results
    /\ file' = Save(config.Storage, SliceOfResult(results))
    /\ startPc' = "return"
    /\ UNCHANGED <<startErr, baseDomain>>
    /\ UNCHANGED startVarsRest

\* Mutant of StartSaveFail: the results are dropped when the save fails.
StartSaveFailNoResults ==
    /\ ~panicked
    /\ UNCHANGED <<web, rateVars, file, retTorn, fnVars>>
    /\ startPc = "save"
    /\ saved' = results
    /\ retResults' = <<>>
    /\ retErr' = "save"
    /\ startPc' = "returned"
    /\ UNCHANGED <<startErr, baseDomain>>
    /\ UNCHANGED startVarsRest

\* The same copy, then c.config.Storage.Save(results) returns an error
\* (os.Create fails, nothing is written):
\* return results, errors.New("failed to save results: ...").
StartSaveFail ==
    /\ ~panicked
    /\ UNCHANGED <<web, rateVars, file, retTorn, fnVars>>
    /\ startPc = "save"
    /\ saved' = results
    /\ retResults' = results
    /\ retErr' = "save"
    /\ startPc' = "returned"
    /\ UNCHANGED <<startErr, baseDomain>>
    /\ UNCHANGED startVarsRest

\* The workers whose append to c.results can overlap a read made now.
Appenders == {w \in Workers : wpc[w] = "store"}

\* return c.results, nil: the slice header is read without c.mu.  A read
\* that overlaps an append is a data race: it can see the slice as it was, as
\* it is after the append, or a header that is half of each.
StartReturn ==
    /\ ~panicked
    /\ UNCHANGED <<web, rateVars, saved, file, fnVars>>
    /\ startPc = "return"
    /\ \/ /\ retResults' = results
          /\ retTorn' = FALSE
       \/ \E w \in Appenders :
             /\ retResults' = Append(results, MkResult(cur[w].url, cur[w].depth, links[w]))
             /\ retTorn' \in BOOLEAN
    /\ retErr' = "nil"
    /\ startPc' = "returned"
    /\ UNCHANGED <<startErr, baseDomain>>
    /\ UNCHANGED startVarsRest

\* Mutant of WaitDone: the wait returns while one worker is still running.
WaitDoneEarly(n) == n <= 1

\* wg.Wait() returns when the counter is zero.
WaitDone(n) == n = 0

Waiter ==
    /\ ~panicked
    /\ UNCHANGED <<web, rateVars, returnVars, fnVars>>
    /\ waiterPc = "waiting"
    /\ WaitDone(wg)
    /\ stopChanClosed' = TRUE
    /\ waiterPc' = "done"
    /\ UNCHANGED <<config, startPc, startErr, baseDomain, wpc, cur, links, jobs, closed,
                   pendingJobs, seen, results, cancelled, wg, tick, stopPc, panicked,
                   enq, closeCount, abandoned>>

\* ------------------------------------------------------------------- Stop

\* c.cancel()
StopCancel(s) ==
    /\ ~panicked
    /\ UNCHANGED <<web, rateVars, returnVars, fnVars>>
    /\ HasCrawler
    /\ stopPc[s] = "idle"
    /\ cancelled' = TRUE
    /\ stopPc' = [stopPc EXCEPT ![s] = "wait"]
    /\ UNCHANGED <<config, startPc, startErr, baseDomain, waiterPc, wpc, cur, links, jobs,
                   closed, pendingJobs, seen, results, wg, stopChanClosed, tick, panicked,
                   enq, closeCount, abandoned>>

\* Mutant of AfterStopRecv: completion is one value sent on the channel, which
\* the first receiver consumes.
AfterStopRecvConsumed(c) == FALSE

\* What a receive leaves of a closed channel: it stays readable by everyone.
AfterStopRecv(c) == c

\* <-c.stopChan
StopReturn(s) ==
    /\ ~panicked
    /\ UNCHANGED <<web, rateVars, returnVars, fnVars>>
    /\ stopPc[s] = "wait"
    /\ stopChanClosed
    /\ stopChanClosed' = AfterStopRecv(stopChanClosed)
    /\ stopPc' = [stopPc EXCEPT ![s] = "returned"]
    /\ UNCHANGED <<config, startPc, startErr, baseDomain, waiterPc, wpc, cur, links, jobs,
                   closed, pendingJobs, seen, results, cancelled, wg, tick, panicked,
                   enq, closeCount, abandoned>>

\* ----------------------------------------------------------------- ticker

\* time.NewTicker(config.RateLimit).C: a channel of capacity 1; a tick that
\* finds the buffer full is dropped.  The ticker is never stopped.
Tick ==
    /\ ~panicked
    /\ UNCHANGED <<web, fetches, returnVars, fnVars>>
    /\ HasCrawler
    /\ tick = 0
    /\ tick' = 1
    /\ ticks' = ticks + 1
    /\ UNCHANGED <<config, startPc, startErr, baseDomain, waiterPc, wpc, cur, links, jobs,
                   closed, pendingJobs, seen, results, cancelled, wg, stopChanClosed,
                   stopPc, panicked, enq, closeCount, abandoned>>

\* ----------------------------------------------------------------- worker

\* Variables no worker step writes.
coordVars == <<config, startPc, startErr, baseDomain, waiterPc, cancelled,
               stopChanClosed, stopPc>>

\* Mutant of BelowMaxDepth: an off-by-one depth test.
BelowMaxDepthInclusive(j) == j.depth <= config.MaxDepth

\* currentJob.depth < c.config.MaxDepth
BelowMaxDepth(j) == j.depth < config.MaxDepth

\* Mutant of SameDomain: a subdomain of the base host is accepted too.
SameDomainOrSub(l) == Host(l) \in {baseDomain, Host(SubURL)}

\* linkURL.Host == baseDomain
SameDomain(l) == Host(l) = baseDomain

\* job{url: link, depth: currentJob.depth + 1}
ChildJob(l, j) == [url |-> l, depth |-> j.depth + 1]

\* Where the range over result.Links goes with `rest` left to visit.
LoopPc(rest) == IF rest = <<>> THEN "dec" ELSE "links"

\* case <-c.ctx.Done() of the worker's select: return (defer c.wg.Done()).
WorkerSelectCancelled(w) ==
    /\ ~panicked
    /\ UNCHANGED <<web, rateVars, returnVars, fnVars>>
    /\ wpc[w] = "select"
    /\ cancelled
    /\ wpc' = [wpc EXCEPT ![w] = "done"]
    /\ wg' = wg - 1
    /\ UNCHANGED <<cur, links, jobs, closed, pendingJobs, seen, results, tick, panicked,
                   enq, closeCount, abandoned>>
    /\ UNCHANGED coordVars

\* case currentJob, ok := <-c.jobs with ok true
WorkerSelectJob(w) ==
    /\ ~panicked
    /\ UNCHANGED <<web, rateVars, returnVars, fnVars>>
    /\ wpc[w] = "select"
    /\ jobs # <<>>
    /\ cur' = [cur EXCEPT ![w] = Head(jobs)]
    /\ jobs' = Tail(jobs)
    /\ wpc' = [wpc EXCEPT ![w] = "rate"]
    /\ UNCHANGED <<links, closed, pendingJobs, seen, results, wg, tick, panicked, enq,
                   closeCount, abandoned>>
    /\ UNCHANGED coordVars

\* case currentJob, ok := <-c.jobs with ok false: the channel is closed and
\* drained; return.
WorkerSelectClosed(w) ==
    /\ ~panicked
    /\ UNCHANGED <<web, rateVars, returnVars, fnVars>>
    /\ wpc[w] = "select"
    /\ jobs = <<>>
    /\ closed
    /\ wpc' = [wpc EXCEPT ![w] = "done"]
    /\ wg' = wg - 1
    /\ UNCHANGED <<cur, links, jobs, closed, pendingJobs, seen, results, tick, panicked,
                   enq, closeCount, abandoned>>
    /\ UNCHANGED coordVars

\* Mutant of WorkerRate: the worker goes on when a tick is in the channel
\* and leaves the tick there.
WorkerRatePeek(w) ==
    /\ ~panicked
    /\ UNCHANGED <<web, ticks, returnVars, fnVars>>
    /\ wpc[w] = "rate"
    /\ tick > 0
    /\ tick' = tick
    /\ fetches' = fetches + 1
    /\ wpc' = [wpc EXCEPT ![w] = "crawl"]
    /\ UNCHANGED <<cur, links, jobs, closed, pendingJobs, seen, results, wg, panicked,
                   enq, closeCount, abandoned>>
    /\ UNCHANGED coordVars

\* <-c.rateLimiter: a plain receive, one tick per job; the call of crawlURL
\* follows it.
WorkerRate(w) ==
    /\ ~panicked
    /\ UNCHANGED <<web, ticks, returnVars, fnVars>>
    /\ wpc[w] = "rate"
    /\ tick > 0
    /\ tick' = tick - 1
    /\ fetches' = fetches + 1
    /\ wpc' = [wpc EXCEPT ![w] = "crawl"]
    /\ UNCHANGED <<cur, links, jobs, closed, pendingJobs, seen, results, wg, panicked,
                   enq, closeCount, abandoned>>
    /\ UNCHANGED coordVars

\* c.crawlURL returns a result and no error.  The request carries c.ctx, so
\* it cannot succeed once the context is done.
WorkerCrawlOk(w) ==
    /\ ~panicked
    /\ UNCHANGED <<web, rateVars, returnVars, fnVars>>
    /\ wpc[w] = "crawl"
    /\ ~cancelled
    /\ links' = [links EXCEPT ![w] = PageLinks(cur[w].url)]
    /\ wpc' = [wpc EXCEPT ![w] = "store"]
    /\ UNCHANGED <<cur, jobs, closed, pendingJobs, seen, results, wg, tick, panicked,
                   enq, closeCount, abandoned>>
    /\ UNCHANGED coordVars

\* Mutant of WorkerCrawlErr: the error branch continues without the decrement.
WorkerCrawlErrNoDecrement(w) ==
    /\ ~panicked
    /\ UNCHANGED <<web, rateVars, returnVars, fnVars>>
    /\ wpc[w] = "crawl"
    /\ cur' = [cur EXCEPT ![w] = NoJob]
    /\ wpc' = [wpc EXCEPT ![w] = "select"]
    /\ UNCHANGED <<links, jobs, closed, pendingJobs, seen, results, wg, tick, panicked,
                   enq, closeCount, abandoned>>
    /\ UNCHANGED coordVars

\* c.crawlURL returns an error (invalid URL, network failure, status other
\* than 200, non-HTML content, parse failure, context done):
\* c.decrementPendingJobs(); continue.
WorkerCrawlErr(w) ==
    /\ ~panicked
    /\ UNCHANGED <<web, rateVars, returnVars, fnVars>>
    /\ wpc[w] = "crawl"
    /\ decrementPendingJobs
    /\ cur' = [cur EXCEPT ![w] = NoJob]
    /\ wpc' = [wpc EXCEPT ![w] = "select"]
    /\ UNCHANGED <<links, jobs, seen, results, wg, tick, enq, abandoned>>
    /\ UNCHANGED coordVars

\* c.mu.Lock(); c.results = append(c.results, result); c.mu.Unlock(), then
\* the depth test that decides whether result.Links is ranged over.
WorkerStore(w) ==
    /\ ~panicked
    /\ UNCHANGED <<web, rateVars, returnVars, fnVars>>
    /\ wpc[w] = "store"
    /\ results' = Append(results, MkResult(cur[w].url, cur[w].depth, links[w]))
    /\ IF BelowMaxDepth(cur[w])
         THEN /\ wpc' = [wpc EXCEPT ![w] = LoopPc(links[w])]
              /\ UNCHANGED links
         ELSE /\ wpc' = [wpc EXCEPT ![w] = "dec"]
              /\ links' = [links EXCEPT ![w] = <<>>]
    /\ UNCHANGED <<cur, jobs, closed, pendingJobs, seen, wg, tick, panicked, enq,
                   closeCount, abandoned>>
    /\ UNCHANGED coordVars

\* if !c.hasURLBeenSeen(link): one critical section of c.mu that only reads;
\* then the host test.  A link that fails either is skipped.
WorkerCheckLink(w) ==
    /\ ~panicked
    /\ UNCHANGED <<web, rateVars, returnVars, fnVars>>
    /\ wpc[w] = "links"
    /\ LET l == Head(links[w]) IN
         IF l \notin seen /\ SameDomain(l)
           THEN /\ wpc' = [wpc EXCEPT ![w] = "mark"]
                /\ UNCHANGED links
           ELSE /\ wpc' = [wpc EXCEPT ![w] = LoopPc(Tail(links[w]))]
                /\ links' = [links EXCEPT ![w] = Tail(links[w])]
    /\ UNCHANGED <<cur, jobs, closed, pendingJobs, seen, results, wg, tick, panicked,
                   enq, closeCount, abandoned>>
    /\ UNCHANGED coordVars

\* c.markURLSeen(link): a second critical section of c.mu.
WorkerMark(w) ==
    /\ ~panicked
    /\ UNCHANGED <<web, rateVars, returnVars, fnVars>>
    /\ wpc[w] = "mark"
    /\ seen' = seen \cup {Head(links[w])}
    /\ wpc' = [wpc EXCEPT ![w] = "inc"]
    /\ UNCHANGED <<cur, links, jobs, closed, pendingJobs, results, wg, tick, panicked,
                   enq, closeCount, abandoned>>
    /\ UNCHANGED coordVars

\* Mutant of WorkerIncrement: the child is sent without being counted.
WorkerIncrementSkipped(w) ==
    /\ ~panicked
    /\ UNCHANGED <<web, rateVars, returnVars, fnVars>>
    /\ wpc[w] = "inc"
    /\ pendingJobs' = pendingJobs
    /\ wpc' = [wpc EXCEPT ![w] = "send"]
    /\ UNCHANGED <<cur, links, jobs, closed, seen, results, wg, tick, panicked, enq,
                   closeCount, abandoned>>
    /\ UNCHANGED coordVars

\* c.incrementPendingJobs() for the child
WorkerIncrement(w) ==
    /\ ~panicked
    /\ UNCHANGED <<web, rateVars, returnVars, fnVars>>
    /\ wpc[w] = "inc"
    /\ incrementPendingJobs
    /\ wpc' = [wpc EXCEPT ![w] = "send"]
    /\ UNCHANGED <<cur, links, jobs, closed, seen, results, wg, tick, panicked, enq,
                   closeCount, abandoned>>
    /\ UNCHANGED coordVars

\* case c.jobs <- job{...} of the inner select: ready while the buffer has
\* room; a send on a closed channel panics.
WorkerSend(w) ==
    /\ ~panicked
    /\ UNCHANGED <<web, rateVars, returnVars, fnVars>>
    /\ wpc[w] = "send"
    /\ closed \/ Len(jobs) < JobsCap
    /\ IF closed
         THEN /\ panicked' = TRUE
              /\ UNCHANGED <<jobs, enq, links, wpc>>
         ELSE /\ jobs' = Append(jobs, ChildJob(Head(links[w]), cur[w]))
              /\ enq' = [enq EXCEPT ![Head(links[w])] = @ + 1]
              /\ links' = [links EXCEPT ![w] = Tail(links[w])]
              /\ wpc' = [wpc EXCEPT ![w] = LoopPc(Tail(links[w]))]
              /\ UNCHANGED panicked
    /\ UNCHANGED <<cur, closed, pendingJobs, seen, results, wg, tick, closeCount,
                   abandoned>>
    /\ UNCHANGED coordVars

\* case <-c.ctx.Done() of the inner select
WorkerSendCancelled(w) ==
    /\ ~panicked
    /\ UNCHANGED <<web, rateVars, returnVars, fnVars>>
    /\ wpc[w] = "send"
    /\ cancelled
    /\ wpc' = [wpc EXCEPT ![w] = "cdec"]
    /\ UNCHANGED <<cur, links, jobs, closed, pendingJobs, seen, results, wg, tick,
                   panicked, enq, closeCount, abandoned>>
    /\ UNCHANGED coordVars

\* Mutant of WorkerCancelDecrement: the worker decrements for the parent job
\* as well before it returns.
WorkerCancelDecrementBoth(w) ==
    /\ ~panicked
    /\ UNCHANGED <<web, rateVars, returnVars, fnVars>>
    /\ wpc[w] = "cdec"
    /\ pendingJobs' = AfterDecrement(AfterDecrement(pendingJobs))
    /\ IF ShouldClose(AfterDecrement(AfterDecrement(pendingJobs)))
         THEN /\ closeCount' = closeCount + 1
              /\ closed' = TRUE
              /\ panicked' = closed
         ELSE UNCHANGED <<closed, closeCount, panicked>>
    /\ abandoned' = abandoned
    /\ cur' = [cur EXCEPT ![w] = NoJob]
    /\ links' = [links EXCEPT ![w] = <<>>]
    /\ wpc' = [wpc EXCEPT ![w] = "done"]
    /\ wg' = wg - 1
    /\ UNCHANGED <<jobs, seen, results, tick, enq>>
    /\ UNCHANGED coordVars

\* c.decrementPendingJobs() for the child that was not sent; return, with
\* the parent job never decremented.
WorkerCancelDecrement(w) ==
    /\ ~panicked
    /\ UNCHANGED <<web, rateVars, returnVars, fnVars>>
    /\ wpc[w] = "cdec"
    /\ decrementPendingJobs
    /\ abandoned' = abandoned + 1
    /\ cur' = [cur EXCEPT ![w] = NoJob]
    /\ links' = [links EXCEPT ![w] = <<>>]
    /\ wpc' = [wpc EXCEPT ![w] = "done"]
    /\ wg' = wg - 1
    /\ UNCHANGED <<jobs, seen, results, tick, enq>>
    /\ UNCHANGED coordVars

\* c.decrementPendingJobs() at the end of the loop body: the job is done.
WorkerDecrement(w) ==
    /\ ~panicked
    /\ UNCHANGED <<web, rateVars, returnVars, fnVars>>
    /\ wpc[w] = "dec"
    /\ decrementPendingJobs
    /\ cur' = [cur EXCEPT ![w] = NoJob]
    /\ wpc' = [wpc EXCEPT ![w] = "select"]
    /\ UNCHANGED <<links, jobs, seen, results, wg, tick, enq, abandoned>>
    /\ UNCHANGED coordVars

\* ------------------------------------------------- function-level checks

\* Everything the crawl engine writes.
crawlerVars == <<config, web, startPc, startErr, baseDomain, waiterPc, wpc, cur, links,
                 jobs, closed, pendingJobs, seen, results, cancelled, wg, stopChanClosed,
                 tick, stopPc, panicked, enq, closeCount, abandoned, rateVars,
                 returnVars>>

\* A crawler that is constructed and never started.
InitIdle ==
    /\ config = [MaxDepth |-> 1, NumWorkers |-> 1, StartURL |-> GoodStartURL,
                 Storage |-> "none", Timeout |-> DefaultTimeout,
                 RateLimit |-> DefaultRateLimit]
    /\ web = "graph"
    /\ InitCrawler

\* All sequences over S of length at most n.
SeqsUpTo(S, n) == UNION {[1..k -> S] : k \in 0..n}

\* The strings of a sequence of strings joined by sep.
RECURSIVE Join(_, _)
Join(strs, sep) ==
    IF strs = <<>> THEN <<>>
    ELSE Head(strs) \o (IF Tail(strs) = <<>> THEN <<>> ELSE <<sep>> \o Join(Tail(strs), sep))

\* The pieces the raw URLs given to NormalizeURL are put together from.
SchemeInputs == {<<>>, <<"http://">>, <<"https://">>}
HostInputs == {<<"example.com">>, <<"[", ":", ":", "1", "]">>}
PortInputs == {<<>>, <<":", "80">>, <<":", "443">>, <<":", "8080">>}
PathInputs == {<<>>, <<"/", "p">>, <<"/", "p", "/">>, <<"/", "f.html">>}
ParamInputs == {<<"utm_source", "=", "x">>, <<"utm_campaign", "=", "y">>,
                <<"utm_id", "=", "7">>, <<"id", "=", "1">>, <<"id", "=", "3">>,
                <<"b", "=", "2">>, <<"b">>}
QueryInputs == {<<>>} \cup {<<"?">> \o Join(ps, "&") : ps \in SeqsUpTo(ParamInputs, MaxParams)}
FragmentInputs == {<<>>, <<"#", "frag">>}

URLInputs ==
    {sch \o h \o po \o pa \o q \o f :
        sch \in SchemeInputs, h \in HostInputs, po \in PortInputs, pa \in PathInputs,
        q \in QueryInputs, f \in FragmentInputs}

InitURL ==
    /\ InitIdle
    /\ input \in URLInputs
    /\ output = <<>>
    /\ step = "input"

\* normalized, err := NormalizeURL(input)
NormalizeOnce ==
    /\ step = "input"
    /\ output' = <<NormalizeURL(input)>>
    /\ step' = "once"
    /\ UNCHANGED <<input, crawlerVars>>

\* NormalizeURL(normalized), when the first call returned no error
NormalizeTwice ==
    /\ step = "once"
    /\ ~output[1].err
    /\ output' = Append(output, NormalizeURL(output[1].url))
    /\ step' = "twice"
    /\ UNCHANGED <<input, crawlerVars>>

NextURL ==
    \/ NormalizeOnce
    \/ NormalizeTwice

\* NormalizeURL applied once and twice to every raw URL of URLInputs.
SpecURL == InitURL /\ [][NextURL]_vars

\* The results the sinks are given: pages with three links, none and one.
ResultInputs == {MkResult(SeedURL, 0, <<PageA, OtherURL, PageB>>),
                 MkResult(PageA, 1, <<>>),
                 MkResult(PageB, 1, <<PageA>>)}

InitSink ==
    /\ InitIdle
    /\ input \in SeqsUpTo(ResultInputs, MaxResults)
    /\ output = <<>>
    /\ step = "input"

\* storage.NewCSVStorage(path).Save(results) returns nil
SaveCSV ==
    /\ step = "input"
    /\ output' = <<Save("csv", SliceOfResult(input))>>
    /\ step' = "csv"
    /\ UNCHANGED <<input, crawlerVars>>

\* storage.NewJSONStorage(path).Save(results) returns nil
SaveJSON ==
    /\ step = "input"
    /\ output' = <<Save("json", SliceOfResult(input))>>
    /\ step' = "json"
    /\ UNCHANGED <<input, crawlerVars>>

NextSink ==
    \/ SaveCSV
    \/ SaveJSON

\* Each sink applied to every result list of at most MaxResults results, given
\* as Start gives them.
SpecSink == InitSink /\ [][NextSink]_vars

\* ------------------------------------------------------------ specifications

StartStep ==
    \/ StartNormalizeOk
    \/ StartNormalizeFail
    \/ StartSpawn
    \/ StartIncrement
    \/ StartSend
    \/ StartMark
    \/ StartWaiter
    \/ StartSelectDone
    \/ StartSaveOk
    \/ StartSaveFail
    \/ StartReturn
    \/ Waiter

\* What a worker does when nothing cancels the context.
WorkerRun(w) ==
    \/ WorkerSelectJob(w)
    \/ WorkerSelectClosed(w)
    \/ WorkerRate(w)
    \/ WorkerCrawlOk(w)
    \/ WorkerCrawlErr(w)
    \/ WorkerStore(w)
    \/ WorkerCheckLink(w)
    \/ WorkerMark(w)
    \/ WorkerIncrement(w)
    \/ WorkerSend(w)
    \/ WorkerDecrement(w)

\* The branches only a done context enables.
WorkerCancel(w) ==
    \/ WorkerSelectCancelled(w)
    \/ WorkerSendCancelled(w)
    \/ WorkerCancelDecrement(w)

\* Every action is guarded by ~panicked: a panic ends the process.
Next ==
    \/ StartStep
    \/ StartSelectCancelled
    \/ Tick
    \/ \E w \in Workers : WorkerRun(w)
    \/ \E w \in Workers : WorkerCancel(w)
    \/ \E s \in MainStopper : StopCancel(s)
    \/ \E s \in MainStopper : StopReturn(s)

Spec == Init /\ [][Next]_vars

\* The Config values a caller hands to New: numbers that are negative, zero
\* and positive, with the JSON sink.
RawConfigs ==
    [MaxDepth : (0 - 1)..MaxDepthBound, NumWorkers : (0 - 1)..MaxWorkers,
     StartURL : StartURLs, Storage : {"json"},
     Timeout : {0, 30}, RateLimit : {0 - 1, 250}]

\* Before New: config is the argument of New.
InitNew ==
    /\ config \in RawConfigs
    /\ web = "graph"
    /\ InitCrawler
    /\ input = config
    /\ output = <<>>
    /\ step = "input"

\* c := crawler.New(config)
NewCrawler ==
    /\ step = "input"
    /\ config' = New(config)
    /\ output' = <<New(config)>>
    /\ step' = "new"
    /\ UNCHANGED <<input, web, startPc, startErr, baseDomain, waiterPc, wpc, cur, links,
                   jobs, closed, pendingJobs, seen, results, cancelled, wg,
                   stopChanClosed, tick, stopPc, panicked, enq, closeCount, abandoned,
                   rateVars, returnVars>>

NextNew ==
    \/ NewCrawler
    \/ Next

\* New applied to every config of RawConfigs, then the run.
SpecNew == InitNew /\ [][NextNew]_vars

\* A run in which nobody calls Stop.
NextNoCancel ==
    \/ StartStep
    \/ Tick
    \/ \E w \in Workers : WorkerRun(w)

SpecNoCancel == Init /\ [][NextNoCancel]_vars

\* Several goroutines call Stop, at any time and in any order.
NextStops ==
    \/ StartStep
    \/ StartSelectCancelled
    \/ Tick
    \/ \E w \in Workers : WorkerRun(w)
    \/ \E w \in Workers : WorkerCancel(w)
    \/ \E s \in Stoppers : StopCancel(s)
    \/ \E s \in Stoppers : StopReturn(s)

\* What a worker does when nothing cancels the context and every fetch
\* succeeds.
WorkerRunOk(w) ==
    \/ WorkerSelectJob(w)
    \/ WorkerSelectClosed(w)
    \/ WorkerRate(w)
    \/ WorkerCrawlOk(w)
    \/ WorkerStore(w)
    \/ WorkerCheckLink(w)
    \/ WorkerMark(w)
    \/ WorkerIncrement(w)
    \/ WorkerSend(w)
    \/ WorkerDecrement(w)

\* A run in which nobody calls Stop and no fetch fails.
NextAllFetched ==
    \/ StartStep
    \/ Tick
    \/ \E w \in Workers : WorkerRunOk(w)

FairnessAllFetched ==
    /\ WF_vars(StartStep)
    /\ WF_vars(Tick)
    /\ \A w \in Workers : WF_vars(WorkerRunOk(w))

FairSpecAllFetched == Init /\ [][NextAllFetched]_vars /\ FairnessAllFetched

\* The Go scheduler runs every goroutine that can take a step, and the ticker
\* keeps ticking; nothing obliges anyone to call Stop.
Fairness ==
    /\ WF_vars(StartStep \/ StartSelectCancelled)
    /\ WF_vars(Tick)
    /\ \A w \in Workers : WF_vars(WorkerRun(w) \/ WorkerCancel(w))
    /\ \A s \in Stoppers : WF_vars(StopReturn(s))

\* The crawler as main builds it when -output is left at results.json: the
\* sink is the JSON one.
InitMain == Init /\ config.Storage = "json"

FairSpecStops == InitMain /\ [][NextStops]_vars /\ Fairness

\* ----------------------------------------------------------------- claims

\* The workers Start launched.
Pool == {w \in Workers : w <= config.NumWorkers}

AllWorkersExited == \A w \in Pool : wpc[w] = "done"

\* A worker holds a job it received and has not yet decremented for.
Processing(w) == wpc[w] \in {"rate", "crawl", "store", "links", "mark", "inc", "send",
                             "cdec", "dec"}

\* C1: with no cancellation a crawl always terminates: as long as Start has
\* not returned some goroutine can take a step (the state graph without
\* cancellation has no cycle), and once Start has returned from a run every
\* worker has exited on the closed channel and the pending counter has gone
\* to zero exactly once.
C1_CrawlTerminates ==
    /\ startPc # "returned" => ENABLED NextNoCancel
    /\ (startPc = "returned" /\ ~startErr) =>
          /\ AllWorkersExited
          /\ closed
          /\ pendingJobs = 0
          /\ closeCount = 1

\* C2: every canonical URL is sent on the jobs channel at most once per run.
C2_EnqueuedAtMostOnce ==
    \A u \in URLs : enq[u] <= 1

\* C3: the jobs channel is closed at most once and never panics on a second
\* close; it is closed by the decrement that takes the counter from one to
\* zero, by nothing else, and by every step that takes the counter to zero;
\* and whenever it is closed the counter is zero, the channel is empty, no
\* worker holds a job or is enqueuing a child, and the seed has been sent.
C3_ClosedOnceAtZero ==
    /\ [](/\ closeCount <= 1
          /\ ~panicked
          /\ closed <=> closeCount = 1
          /\ closed =>
               /\ pendingJobs = 0
               /\ jobs = <<>>
               /\ \A w \in Workers : ~Processing(w)
               /\ startPc \notin {"normalize", "spawn", "inc", "send"})
    /\ [][closed' # closed => (~closed /\ pendingJobs = 1 /\ pendingJobs' = 0)]_vars
    /\ [][(pendingJobs # 0 /\ pendingJobs' = 0) => (~closed /\ closed')]_vars

\* C3 witness: a crawl that fetched several pages has closed the channel.
C3_Witness ==
    closed /\ Len(results) >= 2

\* Jobs created and not yet fully processed: queued, held by a worker, counted
\* for a child (or the seed) that is not sent yet.
LiveJobs ==
    Len(jobs)
      + Cardinality({w \in Workers : Processing(w)})
      + Cardinality({w \in Workers : wpc[w] \in {"send", "cdec"}})
      + (IF startPc = "send" THEN 1 ELSE 0)

\* C4 as stated: in every reachable state the pending counter is >= 0 and
\* equals the number of jobs created and not yet fully processed.
C4_CounterEqualsLiveJobs ==
    pendingJobs >= 0 /\ pendingJobs = LiveJobs

\* C4 amended: the counter is >= 0 and equals the live jobs plus the parent
\* jobs whose worker left through the cancellation branch of the child send
\* without decrementing for them; there is no such job before cancellation, so
\* until then the counter equals the live jobs.
C4_CounterEqualsLiveJobsPlusAbandoned ==
    /\ pendingJobs >= 0
    /\ pendingJobs = LiveJobs + abandoned
    /\ ~cancelled => abandoned = 0

\* C4 witness: a worker has left a parent job behind, and the counter stays
\* above the number of live jobs.
C4_Witness ==
    abandoned > 0 /\ pendingJobs > LiveJobs /\ jobs # <<>>

\* C5: every job in the channel or held by a worker, every URL ever sent on
\* the channel and every recorded result has exactly the seed's host.
C5_OnlySeedHost ==
    /\ \A i \in 1..Len(jobs) : Host(jobs[i].url) = Host(SeedURL)
    /\ \A w \in Workers : Processing(w) => Host(cur[w].url) = Host(SeedURL)
    /\ \A u \in URLs : enq[u] > 0 => Host(u) = Host(SeedURL)
    /\ \A i \in 1..Len(results) : Host(results[i].url) = Host(SeedURL)

\* C5 witness: a worker has ranged over all links of /a/, among them the
\* link to the www subdomain, and the seed's link to other.com was passed too.
C5_Witness ==
    \E w \in Workers :
        /\ wpc[w] = "dec"
        /\ cur[w].url = PageA
        /\ BelowMaxDepth(cur[w])
        /\ \E i \in 1..Len(results) : results[i].url = SeedURL
        /\ enq[PageB] > 0

\* C6: every job in the channel or held by a worker has 0 <= depth <= max
\* depth, every result has depth <= max depth, a worker ranges over links only
\* for a job below max depth, and a job a worker sends has its parent's depth
\* plus one.
C6_DepthBound ==
    /\ [](/\ \A i \in 1..Len(jobs) : jobs[i].depth \in 0..config.MaxDepth
          /\ \A w \in Workers : Processing(w) => cur[w].depth \in 0..config.MaxDepth
          /\ \A i \in 1..Len(results) : results[i].depth <= config.MaxDepth
          /\ \A w \in Workers :
                wpc[w] \in {"links", "mark", "inc", "send", "cdec"}
                    => cur[w].depth < config.MaxDepth)
    /\ [][\A w \in Workers :
            (wpc[w] = "send" /\ links'[w] # links[w]) =>
                /\ jobs' # <<>>
                /\ jobs'[Len(jobs')].depth = cur[w].depth + 1
                /\ cur[w].depth < config.MaxDepth]_vars

\* C6 witness: a page at exactly max depth 2 has been fetched and recorded.
C6_Witness ==
    /\ config.MaxDepth = 2
    /\ \E i \in 1..Len(results) : results[i].depth = config.MaxDepth

\* C7: a call of Stop has cancelled the context from its first step on; on a
\* run whose seed parsed, every call that is waiting eventually returns; and
\* when a call has returned every worker goroutine has exited.
C7_StopReturnsWithNoWorkerRunning ==
    /\ [](\A s \in Stoppers : stopPc[s] # "idle" => cancelled)
    /\ [](\A s \in Stoppers :
            stopPc[s] = "returned" => (AllWorkersExited /\ wg = 0 /\ Pool # {}))
    /\ \A s \in Stoppers :
          (stopPc[s] = "wait" /\ StartURLParses) ~> (stopPc[s] = "returned")

\* C7 witness: Stop has returned from a run it interrupted while a worker was
\* enqueuing a child.
C7_Witness ==
    stopPc[1] = "returned" /\ abandoned > 0

\* C8: no call of Stop panics; a call that finds the run already complete
\* can return at once; and when several calls are made on a run whose seed
\* parsed, all of them return.
C8_StopIsIdempotent ==
    /\ []~panicked
    /\ [](\A s \in Stoppers :
            (stopPc[s] = "wait" /\ stopChanClosed) => ENABLED StopReturn(s))
    /\ ((\A s \in Stoppers : stopPc[s] # "idle") /\ StartURLParses)
          ~> (\A s \in Stoppers : stopPc[s] = "returned")

\* C8 witness: every caller of Stop has returned on a run that fetched every
\* page, closed its channel and whose Start has returned.
C8_Witness ==
    /\ \A s \in Stoppers : stopPc[s] = "returned"
    /\ closed
    /\ startPc = "returned"
    /\ Len(results) >= 3

\* C9: once the context is cancelled, a worker waiting for a rate-limiter
\* tick can leave without a tick, and it never goes on to dispatch the fetch.
C9_CancelPreemptsRateWait ==
    /\ [](\A w \in Workers :
            (cancelled /\ wpc[w] = "rate") => ENABLED WorkerCancel(w))
    /\ [][\A w \in Workers :
            (cancelled /\ wpc[w] = "rate") => wpc'[w] \in {"rate", "done"}]_vars

\* C10: the step of a worker whose fetch fails appends no result, sends no
\* job, marks nothing seen, decrements the pending counter by exactly one,
\* takes the worker back to its select, and leaves every other worker and the
\* wait group as they were.
C10_FetchErrorIsLocal ==
    [][\A w \in Workers :
        (wpc[w] = "crawl" /\ wpc'[w] \notin {"crawl", "store"}) =>
            /\ results' = results
            /\ jobs' = jobs
            /\ enq' = enq
            /\ seen' = seen
            /\ pendingJobs' = pendingJobs - 1
            /\ wpc'[w] = "select"
            /\ \A v \in Workers \ {w} : wpc'[v] = wpc[v] /\ cur'[v] = cur[v]
            /\ wg' = wg]_vars

\* C10 witness: with no cancellation three jobs were sent, one fetch failed,
\* the two other pages were recorded and the crawl ran to the close of the
\* channel.
C10_Witness ==
    /\ ~cancelled
    /\ closed
    /\ \A u \in {SeedURL, PageA, PageB} : enq[u] = 1
    /\ Len(results) = 2

\* C11: Start marks the seed seen before it makes the seed job visible to a
\* worker: whenever the seed job is in the channel or in a worker's hands the
\* seed is in the seen set, and so the seed is never sent a second time.
C11_SeedSeenBeforeVisible ==
    /\ ((\/ \E i \in 1..Len(jobs) : jobs[i].url = SeedURL
         \/ \E w \in Workers : Processing(w) /\ cur[w].url = SeedURL)
            => SeedURL \in seen)
    /\ enq[SeedURL] <= 1

\* C12: the collection a crawl run returns holds at most one result per
\* canonical URL.
C12_NoDuplicateResults ==
    (startPc = "returned" /\ retErr # "parse") =>
        \A i, j \in 1..Len(retResults) :
            retResults[i].url = retResults[j].url => i = j

\* C13: when Start reads the result collection without the lock no worker
\* can still append to it, and the slice Start returns is never a torn read.
C13_ResultsReadOnlyWhenNoAppender ==
    /\ (startPc = "return" => \A w \in Workers : wpc[w] # "store")
    /\ ~retTorn

\* C14: when the start URL cannot be normalized or parsed, Start goes from
\* its first statement straight to its return, and returns an error and no
\* results; no worker is ever launched, the pending counter is never
\* incremented, no job is ever sent and no waiter is started.
C14_BadSeedFailsFast ==
    ~StartURLParses =>
        /\ startPc \in {"normalize", "returned"}
        /\ startPc = "returned" =>
               (startErr /\ retErr = "parse" /\ retResults = <<>>)
        /\ \A w \in Workers : wpc[w] = "none"
        /\ wg = 0
        /\ waiterPc = "none"
        /\ pendingJobs = 0
        /\ jobs = <<>>
        /\ \A u \in URLs : enq[u] = 0
        /\ results = <<>>

\* C14 witness: Start has returned the parse error for the start URL
\* https://[::1 , whose host has no closing bracket.
C14_Witness ==
    /\ config.StartURL = BadStartURL
    /\ startPc = "returned"
    /\ retErr = "parse"
    /\ startErr

\* C15: when Start returns the save error, what it returns with it is the
\* copy of the results it passed to the sink, which is a prefix of the
\* collection in memory, and a sink is configured.
C15_SaveFailureKeepsResults ==
    retErr = "save" =>
        /\ config.Storage # "none"
        /\ startPc = "returned"
        /\ retResults = saved
        /\ Len(retResults) <= Len(results)
        /\ retResults = SubSeq(results, 1, Len(retResults))

\* C15 witness: a save failed after two pages were recorded, and Start
\* returned both results with the error.
C15_Witness ==
    /\ retErr = "save"
    /\ Len(retResults) = 2
    /\ retResults[1].url = SeedURL

\* The run of the end-to-end scenario: start URL https://example.com, depth
\* limit 1, the seed page linking to https://example.com/a,
\* https://other.com/b and #frag.
ScenarioRun ==
    /\ web = "scenario"
    /\ config.StartURL = GoodStartURL
    /\ config.MaxDepth = 1

\* C16: when no fetch fails and nobody stops the crawl, the scenario run
\* completes, and what Start returns is exactly two results, for
\* https://example.com/ and https://example.com/a/ in this order.  Throughout
\* the run the links recorded for the seed are /a/ and other.com/b/ only
\* (the fragment-only href gives no link), only the seed and /a/ are ever
\* sent as jobs, each once, and no result is ever recorded for another URL.
C16_ScenarioYieldsSeedAndA ==
    /\ ScenarioRun ~> (startPc = "returned" /\ Len(retResults) = 2)
    /\ [](ScenarioRun =>
            /\ startPc = "returned" =>
                   /\ retErr \in {"nil", "save"}
                   /\ Len(retResults) = 2
                   /\ retResults[1].url = SeedURL /\ retResults[1].depth = 0
                   /\ retResults[2].url = PageA /\ retResults[2].depth = 1
                   /\ retResults = results
            /\ \A i \in 1..Len(results) :
                   /\ results[i].url \in {SeedURL, PageA}
                   /\ results[i].url = SeedURL =>
                          results[i].links = <<PageA, OtherURL>>
            /\ \A u \in URLs \ {SeedURL, PageA} : enq[u] = 0
            /\ enq[SeedURL] <= 1 /\ enq[PageA] <= 1
            /\ \A i \in 1..Len(jobs) : jobs[i].url \in {SeedURL, PageA})

\* C16 witness: the scenario run, with two workers, has returned its two
\* results.
C16_Witness ==
    /\ ScenarioRun
    /\ config.NumWorkers = 2
    /\ startPc = "returned"
    /\ Len(retResults) = 2
    /\ retResults[2].url = PageA

\* C17: for every raw URL on which NormalizeURL returns no error, NormalizeURL
\* of its result returns no error either and returns the same URL.
C17_NormalizeIdempotent ==
    step = "twice" => (~output[2].err /\ output[2].url = output[1].url)

\* C18 as stated: the query of the normalized URL has no parameter whose name
\* begins with utm_, every other parameter of the input is in it with its
\* values, and https://example.com/p?utm_source=x&id=1 gives the query id=1.
C18_EveryUtmRemoved ==
    (step = "once" /\ ~output[1].err) =>
        LET inQ == ParseQuery(Parse(input).RawQuery)
            outQ == ParseQuery(Parse(output[1].url).RawQuery)
        IN  /\ \A i \in 1..Len(KeyOrder) :
                   ValuesOf(outQ, KeyOrder[i]) =
                       IF KeyOrder[i] \in {<<"utm_source">>, <<"utm_medium">>,
                                           <<"utm_campaign">>, <<"utm_term">>,
                                           <<"utm_content">>, <<"utm_id">>}
                         THEN <<>>
                         ELSE ValuesOf(inQ, KeyOrder[i])
            /\ input = <<"https://", "example.com", "/", "p", "?", "utm_source", "=", "x",
                         "&", "id", "=", "1">>
                   => Parse(output[1].url).RawQuery = <<"id", "=", "1">>

\* C18: the query of the normalized URL has no parameter named utm_source,
\* utm_medium, utm_campaign, utm_term or utm_content, and every other
\* parameter of the input, a utm_id included, is in it with its values in
\* their order; https://example.com/p?utm_source=x&id=1 gives the query id=1.
C18_ListedUtmRemoved ==
    (step = "once" /\ ~output[1].err) =>
        LET inQ == ParseQuery(Parse(input).RawQuery)
            outQ == ParseQuery(Parse(output[1].url).RawQuery)
        IN  /\ \A i \in 1..Len(KeyOrder) :
                   ValuesOf(outQ, KeyOrder[i]) =
                       IF KeyOrder[i] \in {<<"utm_source">>, <<"utm_medium">>,
                                           <<"utm_campaign">>, <<"utm_term">>,
                                           <<"utm_content">>}
                         THEN <<>>
                         ELSE ValuesOf(inQ, KeyOrder[i])
            /\ input = <<"https://", "example.com", "/", "p", "?", "utm_source", "=", "x",
                         "&", "id", "=", "1">>
                   => Parse(output[1].url).RawQuery = <<"id", "=", "1">>

\* C18 witness: https://example.com/p?utm_source=x&id=1 was normalized to
\* https://example.com/p/?id=1 .
C18_Witness ==
    /\ step = "once"
    /\ input = <<"https://", "example.com", "/", "p", "?", "utm_source", "=", "x",
                 "&", "id", "=", "1">>
    /\ output = <<[err |-> FALSE,
                   url |-> <<"https://", "example.com", "/", "p", "/", "?", "id", "=",
                             "1">>]>>

\* C19: for a non-empty result list the CSV sink writes one header row and
\* one row per result, every row has as many cells as the header, and the
\* cell of each data row under the header LinksCount is the number of links
\* of its result.
C19_LinksCountColumn ==
    (step = "csv" /\ input # <<>>) =>
        LET rows == output[1].rows
            col == IndexByte(rows[1], <<"LinksCount">>)
        IN  /\ Len(rows) = 1 + Len(input)
            /\ col # 0
            /\ \A i \in 1..Len(input) :
                   /\ Len(rows[i + 1]) = Len(rows[1])
                   /\ rows[i + 1][col] = FormatInt(Len(input[i].links))

\* C20: the count of the JSON document Start's save wrote is the number of
\* results in its results array.
C20_CountIsNumberOfResults ==
    file.format = "json" =>
        file.document.count = Len(file.document.results)

\* C21: the config of the crawler New returns has NumWorkers 5, Timeout 10 s,
\* MaxDepth 2 and RateLimit 100 ms wherever the argument's value was zero or
\* negative, has the argument's value wherever that was positive, and has the
\* argument's StartURL and Storage; no step of the run that follows changes
\* the config.
C21_DefaultsSetOnceByNew ==
    /\ [](step = "new" =>
            /\ config.NumWorkers = IF input.NumWorkers > 0 THEN input.NumWorkers ELSE 5
            /\ config.Timeout = IF input.Timeout > 0 THEN input.Timeout ELSE 10
            /\ config.MaxDepth = IF input.MaxDepth > 0 THEN input.MaxDepth ELSE 2
            /\ config.RateLimit = IF input.RateLimit > 0 THEN input.RateLimit ELSE 100
            /\ config.StartURL = input.StartURL
            /\ config.Storage = input.Storage
            /\ output = <<config>>)
    /\ [][step = "new" => config' = config]_vars

\* C21 witness: New was given 2 workers, depth 0, timeout 0 and a negative
\* rate interval; the crawler has 2 workers, depth 2, 10 s and 100 ms, and
\* its run has returned three results.
C21_Witness ==
    /\ step = "new"
    /\ input.NumWorkers = 2 /\ input.MaxDepth = 0
    /\ input.Timeout = 0 /\ input.RateLimit = 0 - 1
    /\ config.NumWorkers = 2 /\ config.MaxDepth = 2
    /\ config.Timeout = 10 /\ config.RateLimit = 100
    /\ startPc = "returned"
    /\ Len(retResults) = 3

\* C22: a worker leaves its send for the cancellation branch only when the
\* context is done, and that step sends nothing.  In the branch the counter
\* still counts the child and the parent job; the worker's next step
\* decrements it by exactly one, leaves it above zero, closes nothing, sends
\* nothing and ends the worker, which takes no step afterwards.
C22_CancelledSendDropsChildOnly ==
    /\ [](\A w \in Workers : wpc[w] = "cdec" => (cancelled /\ pendingJobs >= 2))
    /\ [][\A w \in Workers :
            /\ (wpc[w] = "send" /\ wpc'[w] = "cdec") =>
                   (cancelled /\ jobs' = jobs /\ enq' = enq /\ pendingJobs' = pendingJobs)
            /\ (wpc[w] = "cdec" /\ wpc'[w] # "cdec") =>
                   /\ pendingJobs' = pendingJobs - 1
                   /\ pendingJobs' > 0
                   /\ closed' = closed
                   /\ closeCount' = closeCount
                   /\ jobs' = jobs
                   /\ enq' = enq
                   /\ wpc'[w] = "done"
                   /\ wg' = wg - 1
            /\ wpc[w] = "done" => wpc'[w] = "done"]_vars

\* C22 witness: a worker left through the cancellation branch with a link
\* of its page still unvisited: /b/ was never sent, the counter is above
\* zero, the channel is open and every worker has returned.
C22_Witness ==
    /\ cancelled
    /\ abandoned = 1
    /\ enq[PageB] = 0
    /\ PageB \notin seen
    /\ pendingJobs > 0
    /\ ~closed
    /\ AllWorkersExited

\* C23: the number of fetches all workers have made is at most the number
\* of ticks the one ticker has delivered, and every delivered tick is either
\* still in the ticker's channel or was consumed by exactly one fetch.  A
\* worker gets to its fetch only from the wait for a tick, by a step that
\* takes one tick out of the channel.
C23_FetchesBoundedByTicks ==
    /\ [](fetches <= ticks /\ ticks = fetches + tick)
    /\ [][\A w \in Workers :
            (wpc'[w] = "crawl" /\ wpc[w] # "crawl") =>
                /\ wpc[w] = "rate"
                /\ tick > 0
                /\ tick' = tick - 1
                /\ fetches' = fetches + 1
                /\ \A v \in Workers \ {w} : wpc'[v] = wpc[v]]_vars

\* C23 witness: two workers are fetching at the same time, each on a tick
\* of its own, after the seed was fetched: three ticks, three fetches.
C23_Witness ==
    /\ \A w \in Workers : wpc[w] = "crawl"
    /\ fetches = 3
    /\ ticks = 3

\* The URLs on the seed's host that a page u links to.
InDomainLinks(w, u) ==
    {l \in URLs : Host(l) = Host(SeedURL) /\ \E i \in 1..Len(LinksOf[w][u]) : LinksOf[w][u][i] = l}

\* The URLs on the seed's host within k links of the seed in web w.
RECURSIVE WithinLinks(_, _)
WithinLinks(w, k) ==
    IF k = 0 THEN {SeedURL}
    ELSE WithinLinks(w, k - 1) \cup UNION {InDomainLinks(w, u) : u \in WithinLinks(w, k - 1)}

\* The least number of links from the seed to u in web w.
LinkDistance(w, u) ==
    CHOOSE k \in 0..Cardinality(URLs) :
        u \in WithinLinks(w, k) /\ \A j \in 0..(k - 1) : u \notin WithinLinks(w, j)

\* C24: when a run in which no fetch fails and nobody calls Stop has
\* returned, the URLs of its results are exactly the URLs on the seed's host
\* within MaxDepth links of the seed, and the depth recorded in each result
\* is the least number of links from the seed to its URL.
C24_ResultsAreTheReachableSet ==
    (startPc = "returned" /\ retErr # "parse") =>
        /\ {retResults[i].url : i \in 1..Len(retResults)} = WithinLinks(web, config.MaxDepth)
        /\ \A i \in 1..Len(retResults) :
               retResults[i].depth = LinkDistance(web, retResults[i].url)

\* C25: with the context not cancelled there is no state in which the jobs
\* channel is full and every worker of the pool stands in the send of a
\* child, so that nobody is left to receive.
C25_NeverAllWorkersInSend ==
    ~(/\ ~cancelled
      /\ ~closed
      /\ Len(jobs) >= JobsCap
      /\ \A w \in Pool : wpc[w] = "send")

\* C26: when a sink is configured and Start has returned from a run, by
\* completion or by cancellation, with or without a save error, the list it
\* returned is the list it handed to the sink.
C26_ReturnedIsSavedSnapshot ==
    (startPc = "returned" /\ retErr # "parse" /\ config.Storage # "none") =>
        retResults = saved

\* C27: nothing is ever sent on the closed jobs channel: no step panics, and
\* whenever Start or a worker stands before its send, cancelled or not, the
\* pending counter is above zero and the channel is open; the step that
\* closes the channel is taken with no sender standing before a send.
C27_NoSendOnClosedChannel ==
    /\ [](~panicked)
    /\ []((startPc = "send" \/ \E w \in Workers : wpc[w] = "send") =>
              (pendingJobs > 0 /\ ~closed))
    /\ [][closed' /\ ~closed =>
              (startPc' # "send" /\ \A w \in Workers : wpc'[w] # "send")]_vars

\* C27 witness: after Stop a worker stands before the send of a child while
\* the other worker has finished its job; the counter is above zero and the
\* channel open.
C27_Witness ==
    /\ cancelled
    /\ wpc[1] = "send"
    /\ wpc[2] = "select"
    /\ jobs = <<>>
    /\ pendingJobs > 0
    /\ ~closed
    /\ Len(results) = 2

====
